---- MODULE Spec2Model ----
(***************************************************************************)
(* State-machine model of linkagemodel/linkage.py (class LinkageModel):    *)
(* the coupling loop run_for_years, the one-time _startup, the two         *)
(* displacement injectors and the material reclassification.               *)
(*                                                                         *)
(* Representation of time.  The code keeps time_years, end_years,          *)
(* checkpoint_interval and _next_checkpoint_years in (floating) years and  *)
(* max_seconds, dt_seconds in seconds.  Here every quantity in years is an *)
(* integer number of ticks of 1/TicksPerYear year, and every quantity in   *)
(* seconds is an integer number of seconds; the two conversions of the     *)
(* code (line 124: years * SECONDS_PER_YEAR, line 136: seconds /           *)
(* SECONDS_PER_YEAR) are YearsToSeconds and SecondsToYears.  The update    *)
(* callback returns whole ticks' worth of seconds, so both are exact.      *)
(***************************************************************************)
EXTENDS Integers, Sequences, FiniteSets, TLC

\* ---------------------------------------------------------------- bounds
TicksPerYear == 2       \* resolution of the clock: ticks per year
MaxTime      == 2       \* run_for_years is not called beyond this time (ticks)
MaxInterval  == 2       \* checkpoint_interval ranges over 1..MaxInterval (ticks)
MaxNeg       == 1       \* how many times the callback may return a negative dt
MaxZ         == 2       \* heights of a particle handed to _update_material_types: 0..MaxZ
MaxElev      == 1       \* elevations of the flat surface: 1..MaxElev
MaxRes       == 3       \* resolutions handed to generate_flat_dem: 1..MaxRes
MaxSteps     == 2       \* coupling steps of each of the runs that share /tmp

\* ------------------------------------------------------------- constants
SECONDS_PER_YEAR == 31536000      \* float(365 * 24 * 60 * 60)
NaN  == -1                        \* griddata's value outside the convex hull
None == -1                        \* _next_checkpoint_years before startup

Particles == {1}                  \* the swarm: reclassification treats every particle alone
Zs        == 0..1                 \* heights of a particle
Elevs     == {1}                  \* surface elevations inside the convex hull
Vels      == {1}                  \* velocity of the field at the tracers (m/s)
Sigmas    == 0..1                 \* the sigma argument of run_for_years
InitRows  == 0..1                 \* rows of force.T_disp the Badlands model starts with

\* the inputs of _update_material_types when it is called on its own
MatZs     == 0..MaxZ
MatElevs  == 1..MaxElev
MatIds    == 0..3                 \* material identifiers
\* material maps <<air identifiers, sediment identifiers>>: the default of
\* line 91, two maps with several identifiers a layer, one whose sets overlap
MatMaps   == { << <<0>>, <<1>> >>, << <<0, 2>>, <<1, 3>> >>,
               << <<2, 0>>, <<3, 1>> >>, << <<0, 1>>, <<1>> >> }

\* the inputs of generate_flat_dem: (X, Y) corners, resolutions, elevations
DemMins   == {<<0, 0>>}
DemMaxs   == {<<10, 10>>, <<10, 20>>, <<20, 10>>}
DemRes    == (1..MaxRes) \X (1..MaxRes)
DemElevs  == 0..2

\* LinkageModels running at the same time on one host, and the files of
\* lines 144-146 in the order they are saved and loaded
Runs      == {1, 2}
SnapFiles == <<"mesh", "velfield", "surface">>

\* line 233: the members _startup validates, in the order it validates them
ValidatedMembers ==
    <<"velocity_field", "material_index", "update_function",
      "badlands_model", "mesh", "swarm">>

\* every collaborator the loop uses; checkpoint_function is not set in
\* __init__ and not validated in _startup
AllMembers ==
    {ValidatedMembers[i] : i \in 1..Len(ValidatedMembers)} \cup {"checkpoint_function"}

UwDomain  == <<0, 10, 0, 10>>
BlDomains == {<<0, 10, 0, 10>>, <<0, 10, 0, 20>>}

VARIABLES
    \* --- configuration set by the user
    unset,                    \* members that are None / absent
    bl_xy, uw_xy,             \* horizontal extents of the two models
    checkpoint_interval,
    material_map,
    disable_material_changes,
    \* --- LinkageModel's own fields
    time_years,
    model_started,            \* _model_started
    disp_inserted,            \* _disp_inserted
    checkpoint_number,        \* _checkpoint_number
    next_checkpoint_years,    \* _next_checkpoint_years
    \* --- the Badlands model
    bl_input,                 \* input.disp3d, input.region, input.tDisplay
    T_disp,                   \* force.T_disp, a sequence of rows <<start, end>>
    init_rows,                \* the rows force.T_disp had when the model was handed over
    injected_disps,           \* force.injected_disps
    next_display,             \* force.next_display
    bl_time,                  \* the time the model was last run to
    \* --- the Underworld model
    pz,                       \* z of every particle of the swarm
    interp_z,                 \* surface elevation interpolated at every particle
    material_index,
    vel,                      \* the velocity field
    tracers,                  \* _surface_tracers: "none", "seeded" at the DEM nodes, "advected"
    tmp_files,                \* /tmp/mpi-*.h5
    np_loaded,                \* what the non-partitioned replica holds
    \* --- run_for_years' frame
    pc, years, sigma, end_years, max_seconds, dt_seconds, write_checkpoint,
    dt_years, tracer_disp,
    \* --- observation
    cp_calls,                 \* how many times checkpoint_function was called
    last_cp,                  \* its last call
    update_called,            \* update_function has been invoked
    neg_returns,              \* negative values returned by update_function
    error,                    \* the exception that ended the last call
    \* --- the functions called on their own
    mat_trace,                \* the last two calls of _update_material_types
    dem_args,                 \* the arguments of generate_flat_dem
    snap_files,               \* /tmp/mpi-*.h5 as several runs see them
    snap_runs,                \* where each of these runs is, and what it loaded
    dem                       \* what generate_flat_dem returned

config == <<unset, bl_xy, uw_xy, checkpoint_interval, material_map,
            disable_material_changes>>
fields == <<time_years, model_started, disp_inserted, checkpoint_number,
            next_checkpoint_years>>
badlands == <<bl_input, T_disp, init_rows, injected_disps, next_display, bl_time>>
underworld == <<pz, interp_z, material_index, vel, tracers, tmp_files, np_loaded>>
frame == <<years, sigma, end_years, max_seconds, dt_seconds, write_checkpoint,
           dt_years, tracer_disp>>
observed == <<cp_calls, last_cp, update_called, neg_returns, error>>
library == <<mat_trace, dem_args, dem, snap_files, snap_runs>>
vars == <<config, fields, badlands, underworld, pc, frame, observed, library>>

\* the names of the files
FileNames == {SnapFiles[i] : i \in 1..Len(SnapFiles)}

\* the content of a file: the run and the step whose save wrote it, and
\* whether the write was completed
Content(r, step, state) == [run |-> r, step |-> step, state |-> state]

\* a file that was never written, an object nothing was loaded into
Absent == Content(0, 0, "absent")

\* no run has saved anything yet
NoSnapshots ==
    /\ snap_files = [f \in FileNames |-> Absent]
    /\ snap_runs = [r \in Runs |->
                      [step |-> 0, at |-> 0, writing |-> FALSE,
                       loaded |-> [f \in FileNames |-> Absent]]]

\* ------------------------------------------------------------ conversions
\* line 124: max_seconds = max_years * self.SECONDS_PER_YEAR
YearsToSeconds(y) == (y * SECONDS_PER_YEAR) \div TicksPerYear

\* line 136: dt_years = dt_seconds / self.SECONDS_PER_YEAR
SecondsToYears(s) == (s * TicksPerYear) \div SECONDS_PER_YEAR

Min(a, b) == IF a <= b THEN a ELSE b

InSeq(x, s) == \E i \in 1..Len(s) : s[i] = x


\* ------------------------------------------------ material reclassification
\* faulty variant of DetermineParticleState: a particle on the surface is sediment
DetermineParticleState_NonStrict(z, iz) ==
    [i \in DOMAIN z |-> IF iz[i] = NaN THEN FALSE ELSE z[i] <= iz[i]]

\* faulty variant of DetermineParticleState: outside the convex hull is sediment
DetermineParticleState_OutsideIsSediment(z, iz) ==
    [i \in DOMAIN z |-> IF iz[i] = NaN THEN TRUE ELSE z[i] < iz[i]]

\* lines 293-306, _determine_particle_state: True for sediment, False for air.
\* griddata gives NaN outside the convex hull, and z < NaN is False.
DetermineParticleState(z, iz) ==
    [i \in DOMAIN z |-> IF iz[i] = NaN THEN FALSE ELSE z[i] < iz[i]]

\* faulty variant of Reclassify: the second test does not read the flag
Reclassify_SedimentAlwaysAir(map, material, flag) ==
    LET first  == IF InSeq(material, map[1]) /\ flag THEN map[2][1] ELSE material
    IN  IF InSeq(material, map[2]) THEN map[1][1] ELSE first

\* faulty variant of Reclassify: the last identifier of the target set is written
Reclassify_WritesLast(map, material, flag) ==
    LET first  == IF InSeq(material, map[1]) /\ flag
                  THEN map[2][Len(map[2])] ELSE material
    IN  IF InSeq(material, map[2]) /\ ~flag THEN map[1][Len(map[1])] ELSE first

\* lines 391-398, the body of the loop for one particle: both tests read the
\* identifier the particle had when the loop reached it
Reclassify(map, material, flag) ==
    LET first  == IF InSeq(material, map[1]) /\ flag THEN map[2][1] ELSE material
    IN  IF InSeq(material, map[2]) /\ ~flag THEN map[1][1] ELSE first

\* faulty variant of UpdateMaterialTypes: disable_material_changes is not read
UpdateMaterialTypes_IgnoresDisable(disable, map, mat, z, iz) ==
    LET material_flags == DetermineParticleState(z, iz)
    IN  [i \in DOMAIN mat |-> Reclassify(map, mat[i], material_flags[i])]

\* lines 381-398, _update_material_types
UpdateMaterialTypes(disable, map, mat, z, iz) ==
    IF disable THEN mat
    ELSE LET material_flags == DetermineParticleState(z, iz)
         IN  [i \in DOMAIN mat |-> Reclassify(map, mat[i], material_flags[i])]

\* one call of checkpoint_function(self, checkpoint_number, time_years), with
\* what the caller's state was when it was made
CheckpointCall(origin, number, t, step_end, boundary, surface_time) ==
    [origin |-> origin, index |-> number, time |-> t, step_end |-> step_end,
     boundary |-> boundary, surface_time |-> surface_time]

\* faulty variant of NextCheckpointNumber: the index is not incremented
NextCheckpointNumber_Stuck(n) == n

\* lines 182 and 277: self._checkpoint_number += 1
NextCheckpointNumber(n) == n + 1

\* ---------------------------------------------------------------- Init
\* lines 66-108, __init__, and the members the user sets afterwards
Init ==
    /\ unset \in {{}} \cup {{k} : k \in AllMembers}
    /\ bl_xy \in BlDomains
    /\ uw_xy = UwDomain
    /\ checkpoint_interval \in 1..MaxInterval
    /\ material_map = << <<0>>, <<1>> >>
    /\ disable_material_changes \in BOOLEAN
    /\ time_years = 0
    /\ model_started = FALSE
    /\ disp_inserted = FALSE
    /\ checkpoint_number = 0
    /\ next_checkpoint_years = None
    /\ bl_input = [disp3d |-> FALSE, region |-> 1, tDisplay |-> 0]
    /\ init_rows \in InitRows
    /\ T_disp = [i \in 1..init_rows |-> <<0, MaxTime>>]
    /\ injected_disps = <<>>
    /\ next_display = 1
    /\ bl_time = 0
    /\ pz \in [Particles -> Zs]
    /\ interp_z \in [Particles -> Elevs \cup {NaN}]
    /\ material_index \in [Particles -> {0, 1}]
    /\ vel \in Vels
    /\ tracers = "none"
    /\ tmp_files = <<>>
    /\ np_loaded = <<>>
    /\ pc = "idle"
    /\ years = 0
    /\ sigma = 0
    /\ end_years = 0
    /\ max_seconds = 0
    /\ dt_seconds = 0
    /\ write_checkpoint = FALSE
    /\ dt_years = 0
    /\ tracer_disp = 0
    /\ cp_calls = 0
    /\ last_cp = CheckpointCall("none", 0, 0, 0, 0, 0)
    /\ update_called = FALSE
    /\ neg_returns = 0
    /\ error = "none"
    /\ mat_trace = <<>>
    /\ NoSnapshots
    /\ dem_args = <<>>
    /\ dem = <<>>

\* ------------------------------------------------------ the user, when idle
\* a member named in the class docstring (lines 15-58) is assigned
SetMember(k) ==
    /\ pc = "idle"
    /\ k \in unset
    /\ unset' = unset \ {k}
    /\ UNCHANGED <<bl_xy, uw_xy, checkpoint_interval, material_map,
                   disable_material_changes>>
    /\ UNCHANGED <<fields, badlands, underworld, pc, frame, observed>>
    /\ UNCHANGED library

\* lines 308-314, load_badlands_dem_file / load_badlands_dem_array: Badlands
\* rebuilds its grid from the DEM
LoadBadlandsDem(d) ==
    /\ pc = "idle"
    /\ ~model_started
    /\ "badlands_model" \notin unset
    /\ bl_xy' = d
    /\ interp_z' \in [Particles -> Elevs \cup {NaN}]
    /\ UNCHANGED <<unset, uw_xy, checkpoint_interval, material_map,
                   disable_material_changes>>
    /\ UNCHANGED <<pz, material_index, vel, tracers, tmp_files, np_loaded>>
    /\ UNCHANGED <<fields, badlands, pc, frame, observed>>
    /\ UNCHANGED library

\* lines 110-116: run_for_years is entered
RunForYears(y, sg) ==
    /\ pc = "idle"
    /\ time_years + y <= MaxTime
    /\ years' = y
    /\ sigma' = sg
    /\ error' = "none"
    /\ pc' = IF model_started THEN "begin" ELSE "startup_validate"
    /\ UNCHANGED <<end_years, max_seconds, dt_seconds, write_checkpoint, dt_years,
                   tracer_disp>>
    /\ UNCHANGED <<cp_calls, last_cp, update_called, neg_returns>>
    /\ UNCHANGED <<config, fields, badlands, underworld>>
    /\ UNCHANGED library

\* run_for_years returns or raises: its frame (the arguments and the locals)
\* is gone
Return ==
    /\ pc' = "idle"
    /\ years' = 0
    /\ sigma' = 0
    /\ end_years' = 0
    /\ max_seconds' = 0
    /\ dt_seconds' = 0
    /\ write_checkpoint' = FALSE
    /\ dt_years' = 0
    /\ tracer_disp' = 0

\* ------------------------------------------------------------- _startup
\* line 233-234: the first member of the list that is None, 0 when all are set
FirstUnset(u) ==
    IF \E i \in 1..Len(ValidatedMembers) : ValidatedMembers[i] \in u
    THEN CHOOSE i \in 1..Len(ValidatedMembers) :
            /\ ValidatedMembers[i] \in u
            /\ \A j \in 1..(i - 1) : ValidatedMembers[j] \notin u
    ELSE 0

\* line 240: assert bl_xy == uw_xy
SameDomain(bl, uw) == bl = uw

\* lines 230-240: the assertions of _startup
StartupValidate ==
    /\ pc = "startup_validate"
    /\ ~model_started
    /\ IF FirstUnset(unset) # 0
       THEN /\ error' = "AssertionError: member"
            /\ Return
       ELSE IF ~SameDomain(bl_xy, uw_xy)
       THEN /\ error' = "AssertionError: domain"
            /\ Return
       ELSE /\ error' = error
            /\ pc' = "startup_configure"
            /\ UNCHANGED frame
    /\ UNCHANGED <<cp_calls, last_cp, update_called, neg_returns>>
    /\ UNCHANGED <<config, fields, badlands, underworld>>
    /\ UNCHANGED library

\* lines 242-263: Badlands is configured, the tracers, the advector and the
\* non-partitioned mesh are built
StartupConfigure ==
    /\ pc = "startup_configure"
    /\ bl_input' = [disp3d |-> TRUE, region |-> 0, tDisplay |-> checkpoint_interval]
    /\ tracers' = "seeded"
    /\ pc' = "startup_classify"
    /\ UNCHANGED <<T_disp, init_rows, injected_disps, next_display, bl_time>>
    /\ UNCHANGED <<pz, interp_z, material_index, vel, tmp_files, np_loaded>>
    /\ UNCHANGED <<config, fields, frame, observed>>
    /\ UNCHANGED library

\* line 266: the initial DEM state is transferred to Underworld
StartupClassify ==
    /\ pc = "startup_classify"
    /\ material_index' = UpdateMaterialTypes(disable_material_changes, material_map,
                                             material_index, pz, interp_z)
    /\ pc' = "startup_checkpoint"
    /\ UNCHANGED <<pz, interp_z, vel, tracers, tmp_files, np_loaded>>
    /\ UNCHANGED <<config, fields, badlands, frame, observed>>
    /\ UNCHANGED library

\* lines 268-279: the first boundary, the initial checkpoint, the flag.
\* checkpoint_function is read at line 271 for the first time: when it was
\* never assigned the attribute lookup raises there.
StartupCheckpoint ==
    /\ pc = "startup_checkpoint"
    /\ next_checkpoint_years' = checkpoint_interval
    /\ IF "checkpoint_function" \in unset
       THEN /\ error' = "AttributeError: checkpoint_function"
            /\ Return
            /\ UNCHANGED <<cp_calls, last_cp, next_display, checkpoint_number,
                           model_started>>
       ELSE /\ cp_calls' = cp_calls + 1
            /\ last_cp' = CheckpointCall("startup", checkpoint_number, time_years,
                                         time_years, checkpoint_interval, bl_time)
            /\ next_display' = 0
            /\ checkpoint_number' = NextCheckpointNumber(checkpoint_number)
            /\ model_started' = TRUE
            /\ error' = error
            /\ pc' = "begin"
            /\ UNCHANGED frame
    /\ UNCHANGED <<time_years, disp_inserted>>
    /\ UNCHANGED <<bl_input, T_disp, init_rows, injected_disps, bl_time>>
    /\ UNCHANGED <<update_called, neg_returns>>
    /\ UNCHANGED <<config, underworld>>
    /\ UNCHANGED library


\* --------------------------------------------------- run_for_years, the loop
\* line 118: end_years = self.time_years + years
Begin ==
    /\ pc = "begin"
    /\ end_years' = time_years + years
    /\ pc' = "loop"
    /\ UNCHANGED <<years, sigma, max_seconds, dt_seconds, write_checkpoint, dt_years,
                   tracer_disp>>
    /\ UNCHANGED <<config, fields, badlands, underworld, observed>>
    /\ UNCHANGED library

\* faulty variant of MaxYears: the checkpoint boundary does not limit the step
MaxYears_IgnoreBoundary(t, endy, nextcp) == endy - t

\* faulty variant of MaxYears: the end of the request does not limit the step
MaxYears_IgnoreEnd(t, endy, nextcp) == nextcp - t

\* lines 122-123: the longest the step may run, in years
MaxYears(t, endy, nextcp) == Min(endy - t, nextcp - t)

\* lines 119-124: the loop test and the ceiling of the step; the call returns
\* when the test fails
LoopTest ==
    /\ pc = "loop"
    /\ IF time_years < end_years
       THEN /\ max_seconds' = YearsToSeconds(
                                 MaxYears(time_years, end_years, next_checkpoint_years))
            /\ pc' = "update"
            /\ UNCHANGED <<years, sigma, end_years, dt_seconds, write_checkpoint,
                           dt_years, tracer_disp>>
       ELSE Return
    /\ UNCHANGED <<config, fields, badlands, underworld, observed>>
    /\ UNCHANGED library

\* what update_function may return for a ceiling of maxs seconds: any whole
\* number of ticks from one tick backwards to one tick more than the ceiling
UpdateReturns(maxs, negs) ==
    {YearsToSeconds(k) :
        k \in (IF negs < MaxNeg THEN -1 ELSE 0)..(SecondsToYears(maxs) + 1)}

\* line 127: dt_seconds = self.update_function(self, max_seconds); the
\* callback solves and advects the Underworld model
UpdateCallback ==
    /\ pc = "update"
    /\ dt_seconds' \in UpdateReturns(max_seconds, neg_returns)
    /\ neg_returns' = IF dt_seconds' < 0 THEN neg_returns + 1 ELSE neg_returns
    /\ update_called' = TRUE
    /\ pz' \in [Particles -> Zs]
    /\ vel' \in Vels
    /\ pc' = "check_dt"
    /\ UNCHANGED <<interp_z, material_index, tracers, tmp_files, np_loaded>>
    /\ UNCHANGED <<years, sigma, end_years, max_seconds, write_checkpoint, dt_years,
                   tracer_disp>>
    /\ UNCHANGED <<cp_calls, last_cp, error>>
    /\ UNCHANGED <<config, fields, badlands>>
    /\ UNCHANGED library

\* faulty variant of DtAccepted: the return value is not checked
DtAccepted_Unchecked(dt, maxs) == TRUE

\* line 128: assert dt_seconds <= max_seconds
DtAccepted(dt, maxs) == dt <= maxs

\* faulty variant of WriteCheckpoint: every step that made progress checkpoints
WriteCheckpoint_AnyProgress(dt, maxs) == dt > 0

\* lines 132-134: write_checkpoint
WriteCheckpoint(dt, maxs) == dt = maxs

\* lines 128-136: the assertion, write_checkpoint and dt_years
CheckDt ==
    /\ pc = "check_dt"
    /\ IF DtAccepted(dt_seconds, max_seconds)
       THEN /\ write_checkpoint' = WriteCheckpoint(dt_seconds, max_seconds)
            /\ dt_years' = SecondsToYears(dt_seconds)
            /\ error' = error
            /\ pc' = "advect"
            /\ UNCHANGED <<years, sigma, end_years, max_seconds, dt_seconds,
                           tracer_disp>>
       ELSE /\ error' = "AssertionError: dt"
            /\ Return
    /\ UNCHANGED <<cp_calls, last_cp, update_called, neg_returns>>
    /\ UNCHANGED <<config, fields, badlands, underworld>>
    /\ UNCHANGED library

\* line 139: self._surface_advector.integrate(dt_seconds)
Advect ==
    /\ pc = "advect"
    /\ tracers' = "advected"
    /\ pc' = "save"
    /\ UNCHANGED <<pz, interp_z, material_index, vel, tmp_files, np_loaded>>
    /\ UNCHANGED <<config, fields, badlands, frame, observed>>
    /\ UNCHANGED library

\* lines 144-146: mesh, velocity field and surface tracers are saved under
\* fixed names in /tmp
SaveSnapshots ==
    /\ pc = "save"
    /\ tmp_files' = <<vel, tracers>>
    /\ pc' = "load"
    /\ UNCHANGED <<pz, interp_z, material_index, vel, tracers, np_loaded>>
    /\ UNCHANGED <<config, fields, badlands, frame, observed>>
    /\ UNCHANGED library

\* lines 149-156: the non-partitioned replica loads them
LoadSnapshots ==
    /\ pc = "load"
    /\ np_loaded' = tmp_files
    /\ pc' = "inject"
    /\ UNCHANGED <<pz, interp_z, material_index, vel, tracers, tmp_files>>
    /\ UNCHANGED <<config, fields, badlands, frame, observed>>
    /\ UNCHANGED library

\* lines 160-166: tracer_velocity_mps * SECONDS_PER_YEAR * dt_years
TracerDisp(velocity_mps, dty) == (velocity_mps * SECONDS_PER_YEAR * dty) \div TicksPerYear

\* faulty variant of InjectRow: the row ends at dt, not at time + dt
InjectRow_EndIsDt(table, inserted, t, dt) ==
    IF inserted
    THEN [table EXCEPT ![1] = <<t, dt>>]
    ELSE << <<t, dt>> >> \o table

\* faulty variant of InjectRow: every call stacks a new row
InjectRow_AlwaysStack(table, inserted, t, dt) == << <<t, t + dt>> >> \o table

\* lines 331-337 and 357-363: the first call stacks the row [time, time + dt]
\* on top of the table, the later ones overwrite the bounds of row 0
InjectRow(table, inserted, t, dt) ==
    IF inserted
    THEN [table EXCEPT ![1] = <<t, t + dt>>]
    ELSE << <<t, t + dt>> >> \o table

\* lines 365-379: each component goes through gaussian_filter(., sigma); the
\* filtered field is kept as the pair of its arguments.  Lines 339: sigma 0
\* is the unsmoothed injector, which stores disp itself.
InjectedDisps(disp, sg) == <<disp, sg>>

\* faulty variant of Inject: the surface model is not advanced before the
\* materials are reclassified
Inject_ThenMaterials ==
    /\ pc = "inject"
    /\ tracer_disp' = TracerDisp(np_loaded[1], dt_years)
    /\ T_disp' = InjectRow(T_disp, disp_inserted, time_years, dt_years)
    /\ disp_inserted' = TRUE
    /\ injected_disps' = InjectedDisps(tracer_disp', sigma)
    /\ pc' = "materials"
    /\ UNCHANGED <<time_years, model_started, checkpoint_number, next_checkpoint_years>>
    /\ UNCHANGED <<bl_input, init_rows, next_display, bl_time>>
    /\ UNCHANGED <<years, sigma, end_years, max_seconds, dt_seconds, write_checkpoint,
                   dt_years>>
    /\ UNCHANGED <<config, underworld, observed>>
    /\ UNCHANGED library

\* lines 166-170: _inject_badlands_displacement(_smooth)
Inject ==
    /\ pc = "inject"
    /\ tracer_disp' = TracerDisp(np_loaded[1], dt_years)
    /\ T_disp' = InjectRow(T_disp, disp_inserted, time_years, dt_years)
    /\ disp_inserted' = TRUE
    /\ injected_disps' = InjectedDisps(tracer_disp', sigma)
    /\ pc' = "run_badlands"
    /\ UNCHANGED <<time_years, model_started, checkpoint_number, next_checkpoint_years>>
    /\ UNCHANGED <<bl_input, init_rows, next_display, bl_time>>
    /\ UNCHANGED <<years, sigma, end_years, max_seconds, dt_seconds, write_checkpoint,
                   dt_years>>
    /\ UNCHANGED <<config, underworld, observed>>
    /\ UNCHANGED library

\* line 173: self.badlands_model.run_to_time(self.time_years + dt_years);
\* Badlands erodes and deposits, the elevation under every particle changes
RunBadlands ==
    /\ pc = "run_badlands"
    /\ bl_time' = time_years + dt_years
    /\ interp_z' \in [Particles -> Elevs \cup {NaN}]
    /\ pc' = "materials"
    /\ UNCHANGED <<bl_input, T_disp, init_rows, injected_disps, next_display>>
    /\ UNCHANGED <<pz, material_index, vel, tracers, tmp_files, np_loaded>>
    /\ UNCHANGED <<config, fields, frame, observed>>
    /\ UNCHANGED library

\* line 177: self._update_material_types()
Materials ==
    /\ pc = "materials"
    /\ material_index' = UpdateMaterialTypes(disable_material_changes, material_map,
                                             material_index, pz, interp_z)
    /\ pc' = "checkpoint"
    /\ UNCHANGED <<pz, interp_z, vel, tracers, tmp_files, np_loaded>>
    /\ UNCHANGED <<config, fields, badlands, frame, observed>>
    /\ UNCHANGED library

\* line 181: the time handed to checkpoint_function
CheckpointTime(t, dty) == t

\* lines 179-183: the checkpoint of the step
Checkpoint ==
    /\ pc = "checkpoint"
    /\ IF write_checkpoint
       THEN /\ cp_calls' = cp_calls + 1
            /\ last_cp' = CheckpointCall("loop", checkpoint_number,
                                         CheckpointTime(time_years, dt_years),
                                         time_years + dt_years, next_checkpoint_years,
                                         bl_time)
            /\ checkpoint_number' = NextCheckpointNumber(checkpoint_number)
            /\ next_checkpoint_years' = next_checkpoint_years + checkpoint_interval
       ELSE UNCHANGED <<cp_calls, last_cp, checkpoint_number, next_checkpoint_years>>
    /\ pc' = "advance"
    /\ UNCHANGED <<time_years, model_started, disp_inserted>>
    /\ UNCHANGED <<update_called, neg_returns, error>>
    /\ UNCHANGED <<config, badlands, underworld, frame>>
    /\ UNCHANGED library

\* faulty variant of NextClock: the clock advances by the requested ceiling
NextClock_Ceiling(t, dty) == t + SecondsToYears(max_seconds)

\* faulty variant of NextClock: the clock runs backwards
NextClock_Backwards(t, dty) == t - dty

\* line 186: self.time_years += dt_years
NextClock(t, dty) == t + dty

\* lines 185-186: the clock advances and the loop test is reached again
AdvanceTime ==
    /\ pc = "advance"
    /\ time_years' = NextClock(time_years, dt_years)
    /\ pc' = "loop"
    /\ UNCHANGED <<model_started, disp_inserted, checkpoint_number,
                   next_checkpoint_years>>
    /\ UNCHANGED <<config, badlands, underworld, frame, observed>>
    /\ UNCHANGED library

\* ------------------------------------------------------------ specification
Next ==
    \/ \E k \in AllMembers : SetMember(k)
    \/ \E d \in BlDomains : LoadBadlandsDem(d)
    \/ \E y \in 1..MaxTime, sg \in Sigmas : RunForYears(y, sg)
    \/ StartupValidate
    \/ StartupConfigure
    \/ StartupClassify
    \/ StartupCheckpoint
    \/ Begin
    \/ LoopTest
    \/ UpdateCallback
    \/ CheckDt
    \/ Advect
    \/ SaveSnapshots
    \/ LoadSnapshots
    \/ Inject
    \/ RunBadlands
    \/ Materials
    \/ Checkpoint
    \/ AdvanceTime

Spec == Init /\ [][Next]_vars

\* the steps of the program itself: once run_for_years is entered the
\* interpreter executes it statement after statement, every callback being a
\* blocking call that returns
Program ==
    \/ StartupValidate
    \/ StartupConfigure
    \/ StartupClassify
    \/ StartupCheckpoint
    \/ Begin
    \/ LoopTest
    \/ UpdateCallback
    \/ CheckDt
    \/ Advect
    \/ SaveSnapshots
    \/ LoadSnapshots
    \/ Inject
    \/ RunBadlands
    \/ Materials
    \/ Checkpoint
    \/ AdvanceTime

\* the configurations termination is checked from: the swarm and the
\* displacement history, which the loop's control flow does not read, are
\* fixed
LiveInit ==
    /\ Init
    /\ unset \in {{}, {"checkpoint_function"}}
    /\ ~disable_material_changes
    /\ init_rows = 0
    /\ pz = [i \in Particles |-> 0]
    /\ interp_z = [i \in Particles |-> 1]
    /\ material_index = [i \in Particles |-> 0]

LiveSpec == LiveInit /\ [][Next]_vars /\ WF_vars(Program)


\* the positions of one step of the loop, from the callback to the clock
StepPcs == {"update", "check_dt", "advect", "save", "load", "inject",
            "run_badlands", "materials", "checkpoint", "advance"}

\* ------------------------------------------------------------------ claims

\* C1: a step changes time_years by exactly dt_seconds / SECONDS_PER_YEAR,
\* dt_seconds being what the update callback returned for the step (not the
\* ceiling max_seconds); the clock changes at the end of a step, once, and
\* nowhere else.
C1_ClockAdvancesByReturnedDt ==
    [][ /\ pc = "advance" =>
              time_years' = time_years + SecondsToYears(dt_seconds)
        /\ pc # "advance" => time_years' = time_years
        /\ pc' = "advance" => pc = "checkpoint" ]_vars

\* C1 witness: a step that consumed less than its ceiling has completed, and
\* the clock stands at the step's start plus what the callback returned
C1_Witness ==
    /\ pc = "loop"
    /\ 0 < dt_seconds
    /\ dt_seconds < max_seconds
    /\ time_years = T_disp[1][1] + SecondsToYears(dt_seconds)

\* C2: in a step the checkpoint callback is called if and only if the update
\* callback returned exactly the ceiling; a step that returned less leaves the
\* checkpoint index and the next boundary as they were; no other position of
\* a step calls it.
C2_CheckpointIffFullStep ==
    [][ /\ pc = "checkpoint" =>
              /\ (cp_calls' = cp_calls + 1) <=> (dt_seconds = max_seconds)
              /\ cp_calls' # cp_calls + 1 => cp_calls' = cp_calls
              /\ dt_seconds < max_seconds =>
                    UNCHANGED <<checkpoint_number, next_checkpoint_years>>
        /\ pc \in StepPcs \ {"checkpoint"} =>
              UNCHANGED <<cp_calls, checkpoint_number, next_checkpoint_years>> ]_vars

\* C2 witness: a step that returned the whole ceiling has just checkpointed
C2_Witness ==
    /\ pc = "advance"
    /\ dt_seconds = max_seconds
    /\ last_cp.origin = "loop"
    /\ last_cp.index = checkpoint_number - 1
    /\ last_cp.step_end = time_years + dt_years

\* C3: the indices handed to the checkpoint callback are 0, 1, 2, ... in
\* order: every call passes the number of calls made before it; the call
\* with index 0 is the one of startup, made before the update callback ever
\* ran, and every later one is made by the loop.
C3_CheckpointIndicesCount ==
    /\ [](cp_calls = 0 => ~update_called)
    /\ [][ cp_calls' # cp_calls =>
              /\ cp_calls' = cp_calls + 1
              /\ last_cp'.index = cp_calls
              /\ (cp_calls = 0) <=> (last_cp'.origin = "startup") ]_vars

\* C3 witness: the third call of the checkpoint callback carries index 2
C3_Witness ==
    /\ cp_calls = 3
    /\ last_cp.index = 2
    /\ last_cp.origin = "loop"

\* C4: the time handed to the checkpoint callback by the loop is the time
\* the step ends at (clock before the step plus dt_years), which is the time
\* the surface model was just run to.
C4_CheckpointTimeIsPostStep ==
    last_cp.origin = "loop" =>
        /\ last_cp.time = last_cp.step_end
        /\ last_cp.time = last_cp.surface_time

\* C5: the loop fires a checkpoint only for a step that ends on the pending
\* boundary, and every boundary is a positive multiple of checkpoint_interval.
C5_CheckpointOnlyAtBoundary ==
    /\ last_cp.origin = "loop" => last_cp.step_end = last_cp.boundary
    /\ next_checkpoint_years # None =>
          /\ next_checkpoint_years > 0
          /\ next_checkpoint_years % checkpoint_interval = 0

\* C6: when the update callback returns more than the ceiling the call ends
\* there with the violation reported, and the step has changed nothing: the
\* clock, the checkpoint index and boundary, the displacement history, the
\* injected displacement, the material identifiers and the surface model are
\* as the callback left them, and no checkpoint was called.
C6_OverrunHaltsUnchanged ==
    [][ (pc = "check_dt" /\ dt_seconds > max_seconds) =>
            /\ pc' = "idle"
            /\ error' = "AssertionError: dt"
            /\ UNCHANGED <<fields, badlands, underworld, cp_calls, last_cp>> ]_vars

\* C6 witness: a call ended on the violation
C6_Witness ==
    /\ pc = "idle"
    /\ error = "AssertionError: dt"
    /\ update_called

\* C7 as stated: once a displacement was injected the history has exactly
\* one row.
C7_ExactlyOneRow ==
    disp_inserted => Len(T_disp) = 1

\* C7 amended: the first injection adds one row on top of the rows the
\* Badlands model came with, every later injection overwrites the bounds of
\* that first row with [time, time + dt] and leaves the others alone, so the
\* history has the initial rows plus one after any number of steps.
C7_OneRowAdded ==
    /\ [](Len(T_disp) = init_rows + (IF disp_inserted THEN 1 ELSE 0))
    /\ [][ pc = "inject" =>
              /\ T_disp'[1] = <<time_years, time_years + dt_years>>
              /\ disp_inserted'
              /\ Tail(T_disp') = (IF disp_inserted THEN Tail(T_disp) ELSE T_disp) ]_vars

\* C7 witness: a later injection (the first row starts after time 0) into a
\* history that came with a row
C7_Witness ==
    /\ disp_inserted
    /\ init_rows = 1
    /\ T_disp[1][1] > 0
    /\ Len(T_disp) = 2
    /\ injected_disps[2] = 1


\* C8 as stated: whenever the update callback keeps to dt_seconds <=
\* max_seconds, a call of run_for_years returns (a call that is entered
\* either returns or is ended by the overrun assertion).
C8_AlwaysTerminates ==
    (pc = "begin") ~> (pc = "idle")

\* C8 amended: a call of run_for_years returns unless the update callback
\* returns a dt_seconds that is not positive (or overruns, which ends the
\* call too); while it runs the clock never passes the requested end, and it
\* returns exactly when time_years equals time at call plus years.
C8_TerminatesOnProgress ==
    /\ (pc = "begin") ~> (pc = "idle" \/ (pc = "check_dt" /\ dt_seconds <= 0))
    /\ [](pc \in StepPcs \cup {"loop"} => time_years <= end_years)
    /\ [][ pc = "loop" => ((pc' = "idle") <=> (time_years = end_years)) ]_vars

\* C8 witness: the loop test is reached after a step with the clock on the
\* requested end
C8_Witness ==
    /\ pc = "loop"
    /\ dt_seconds > 0
    /\ years > 0
    /\ time_years = end_years

\* C9 as stated: as long as every returned dt_seconds passes the loop's
\* check, no step lowers time_years.
C9_ClockNeverDecreases ==
    [][ time_years' >= time_years ]_vars

\* C9 amended: a step whose returned dt_seconds is between 0 and the ceiling
\* does not lower time_years, and nothing else changes it.
C9_ClockMonotoneForNonNegativeDt ==
    [][ /\ (pc = "advance" /\ 0 <= dt_seconds) => time_years' >= time_years
        /\ (pc = "advance" /\ 0 < dt_seconds) => time_years' > time_years
        /\ pc # "advance" => time_years' = time_years ]_vars

\* C9 witness: a step with a positive dt_seconds has moved the clock forward
C9_Witness ==
    /\ pc = "loop"
    /\ dt_seconds > 0
    /\ disp_inserted
    /\ time_years > T_disp[1][1]

\* C10: startup gets past its validation only when every collaborator (the
\* checkpoint callback included) is set and the two horizontal extents agree;
\* otherwise the call has failed before the surface model was configured, a
\* material identifier written, a checkpoint or the update callback called,
\* and _model_started is false.
C10_InvalidConfigFailsInValidation ==
    (unset # {} \/ bl_xy # uw_xy) =>
        /\ ~model_started
        /\ ~bl_input.disp3d
        /\ tracers = "none"
        /\ next_checkpoint_years = None
        /\ cp_calls = 0
        /\ ~update_called


\* ------------------------------------------------------------------- C11
\* C11: startup runs exactly once per LinkageModel: over any sequence of
\* run_for_years calls the initial classification (line 266), the setting of
\* the first boundary (line 268) and the checkpoint with index 0 (line 271)
\* happen once and are not repeated by a later call, and all of them have
\* happened before update_function is first invoked.  A boundary that is
\* already set when _startup reaches line 266 or line 268 was set by an
\* earlier _startup, which also classified: the action is then a repetition.
C11_StartupRunsOnce ==
    [][ /\ pc = "startup_classify" => next_checkpoint_years = None
        /\ pc = "startup_checkpoint" =>
              /\ next_checkpoint_years = None
              /\ cp_calls = 0
        /\ update_called' =>
              /\ model_started'
              /\ next_checkpoint_years' # None
              /\ cp_calls' >= 1 ]_vars

\* ------------------------------------------------------------------- C16
\* C16: the ceiling handed to the update callback is
\* min(end_years - time_years, _next_checkpoint_years - time_years) in
\* seconds, and with the dt <= max contract enforced (line 128) the clock
\* never passes the boundary pending in the step nor the end of the request.
C16_CeilingBoundsClock ==
    [][ /\ (pc = "loop" /\ pc' = "update") =>
              max_seconds' = YearsToSeconds(Min(end_years - time_years,
                                                next_checkpoint_years - time_years))
        /\ pc = "advance" =>
              /\ time_years' <= end_years
              /\ time_years' <= (IF write_checkpoint
                                 THEN next_checkpoint_years - checkpoint_interval
                                 ELSE next_checkpoint_years)
        /\ model_started' => time_years' <= next_checkpoint_years' ]_vars

\* C16 witness: a step was cut at a checkpoint boundary before the end of
\* the request, and the clock stands on that boundary
C16_Witness ==
    /\ pc = "loop"
    /\ time_years > 0
    /\ time_years < end_years
    /\ time_years = next_checkpoint_years - checkpoint_interval
    /\ last_cp.origin = "loop"

C18_TimeSynchronized ==
    [][ /\ pc = "run_badlands" =>
              /\ T_disp[1] = <<time_years, time_years + dt_years>>
              /\ bl_time' = time_years + dt_years
        /\ pc \in StepPcs \ {"advance"} => time_years' = time_years
        /\ pc = "advance" => bl_time' = time_years'
        /\ pc' \in {"loop", "idle"} => bl_time' = time_years' ]_vars

\* C18 witness: the surface model is about to be advanced, in a step that
\* starts after time 0
C18_Witness ==
    /\ pc = "run_badlands"
    /\ time_years > 0
    /\ dt_years > 0
    /\ T_disp[1] = <<time_years, time_years + dt_years>>
    /\ bl_time = time_years

\* ------------------------------------------------------------------- C19
\* C19: while disable_material_changes is set, no step of startup or of the
\* coupling loop changes any particle's material identifier.
C19_DisabledMeansUntouched ==
    [][ disable_material_changes => material_index' = material_index ]_vars

\* C19 witness: a reclassification ran with the flag set and left an air
\* particle that lies below the surface as it was
C19_Witness ==
    /\ disable_material_changes
    /\ pc = "checkpoint"
    /\ \E i \in Particles :
          /\ material_index[i] = 0
          /\ interp_z[i] # NaN
          /\ pz[i] < interp_z[i]


\* ------------------------------------------- _update_material_types alone
\* a constructed LinkageModel whose members are set and on which
\* run_for_years was never called: the values Init gives to everything but
\* the material map, the swarm and the surface under it
Constructed ==
    /\ unset = {}
    /\ bl_xy = UwDomain
    /\ uw_xy = UwDomain
    /\ checkpoint_interval = 1
    /\ time_years = 0
    /\ model_started = FALSE
    /\ disp_inserted = FALSE
    /\ checkpoint_number = 0
    /\ next_checkpoint_years = None
    /\ bl_input = [disp3d |-> FALSE, region |-> 1, tDisplay |-> 0]
    /\ init_rows = 0
    /\ T_disp = <<>>
    /\ injected_disps = <<>>
    /\ next_display = 1
    /\ bl_time = 0
    /\ vel \in Vels
    /\ tracers = "none"
    /\ tmp_files = <<>>
    /\ np_loaded = <<>>
    /\ pc = "idle"
    /\ years = 0
    /\ sigma = 0
    /\ end_years = 0
    /\ max_seconds = 0
    /\ dt_seconds = 0
    /\ write_checkpoint = FALSE
    /\ dt_years = 0
    /\ tracer_disp = 0
    /\ cp_calls = 0
    /\ last_cp = CheckpointCall("none", 0, 0, 0, 0, 0)
    /\ update_called = FALSE
    /\ neg_returns = 0
    /\ error = "none"

\* any material map, any identifiers, any particle heights and elevations
MatInit ==
    /\ Constructed
    /\ material_map \in MatMaps
    /\ disable_material_changes \in BOOLEAN
    /\ pz \in [Particles -> MatZs]
    /\ interp_z \in [Particles -> MatElevs \cup {NaN}]
    /\ material_index \in [Particles -> MatIds]
    /\ mat_trace = <<>>
    /\ NoSnapshots
    /\ dem_args = <<>>
    /\ dem = <<>>

\* what the three steps below leave alone
MatFrame == <<unset, bl_xy, uw_xy, checkpoint_interval, material_map,
              disable_material_changes, fields, badlands, vel, tracers, tmp_files,
              np_loaded, pc, frame, observed, dem_args, dem, snap_files,
              snap_runs>>

\* the swarm is advected: the particles change height
MatMove(z) ==
    /\ pz' = z
    /\ pz' # pz
    /\ UNCHANGED <<interp_z, material_index, mat_trace, MatFrame>>

\* the surface is eroded or deposited on: the elevation under the particles
\* changes, a particle may leave or enter the convex hull
MatSurface(e) ==
    /\ interp_z' = e
    /\ interp_z' # interp_z
    /\ UNCHANGED <<pz, material_index, mat_trace, MatFrame>>

\* one call of _update_material_types as mat_trace keeps it
MatCall(z, iz, before, after) ==
    [z |-> z, iz |-> iz, before |-> before, after |-> after]

\* the trace with one more call, the last two being kept
MatTraced(trace, call) ==
    IF trace = <<>> THEN <<call>> ELSE <<trace[Len(trace)], call>>

\* lines 381-398: _update_material_types()
MatUpdate ==
    /\ material_index' = UpdateMaterialTypes(disable_material_changes, material_map,
                                             material_index, pz, interp_z)
    /\ mat_trace' = MatTraced(mat_trace,
                              MatCall(pz, interp_z, material_index, material_index'))
    /\ UNCHANGED <<pz, interp_z, MatFrame>>

MatNext ==
    \/ \E z \in [Particles -> MatZs] : MatMove(z)
    \/ \E e \in [Particles -> MatElevs \cup {NaN}] : MatSurface(e)
    \/ MatUpdate

MatSpec == MatInit /\ [][MatNext]_vars

\* the air set and the sediment set of a map share no identifier
Disjoint(map) == ~ \E m \in MatIds : InSeq(m, map[1]) /\ InSeq(m, map[2])

\* ------------------------------------------------------------------- C12
\* C12: for every material map with disjoint air and sediment sets, every
\* identifier and every flag, a second call of _update_material_types with
\* the heights and the elevations of the first call writes nothing.
C12_ReclassifyIdempotent ==
    ( /\ Len(mat_trace) = 2
      /\ Disjoint(material_map)
      /\ mat_trace[2].z = mat_trace[1].z
      /\ mat_trace[2].iz = mat_trace[1].iz )
    => mat_trace[2].after = mat_trace[2].before

\* C12 witness: two calls in succession on the same heights and elevations,
\* the first of which changed an identifier
C12_Witness ==
    /\ Len(mat_trace) = 2
    /\ Disjoint(material_map)
    /\ mat_trace[2].z = mat_trace[1].z
    /\ mat_trace[2].iz = mat_trace[1].iz
    /\ mat_trace[1].after # mat_trace[1].before
    /\ mat_trace[2].before = mat_trace[1].after


\* the default material map of line 91
DefaultMap == << <<0>>, <<1>> >>

\* the last call of _update_material_types
LastCall == mat_trace[Len(mat_trace)]

\* ------------------------------------------------------------------- C13
\* C13: over a flat surface of elevation E and with the default material
\* map, a call of _update_material_types leaves a particle of the two layers
\* that lies inside the hull as sediment (1) when z < E and as air (0)
\* otherwise, z = E included: the particle above E is air, lowered below E
\* it becomes sediment in one call and stays so, raised above E again it
\* becomes air in one call and stays so.
C13_RoundTrip ==
    ( /\ mat_trace # <<>>
      /\ material_map = DefaultMap
      /\ ~disable_material_changes )
    => \A i \in Particles :
          (LastCall.iz[i] # NaN /\ LastCall.before[i] \in {0, 1}) =>
             /\ LastCall.z[i] < LastCall.iz[i] => LastCall.after[i] = 1
             /\ LastCall.z[i] >= LastCall.iz[i] => LastCall.after[i] = 0
             /\ (LastCall.after[i] # LastCall.before[i]) <=>
                   (LastCall.before[i] = 0 <=> LastCall.z[i] < LastCall.iz[i])

\* C13 witness: an air particle was lowered strictly below E and the call
\* made it sediment, then it was raised strictly above the same E and the
\* next call made it air again
C13_Witness ==
    /\ Len(mat_trace) = 2
    /\ material_map = DefaultMap
    /\ ~disable_material_changes
    /\ \E i \in Particles :
          /\ mat_trace[1].iz[i] # NaN
          /\ mat_trace[2].iz[i] = mat_trace[1].iz[i]
          /\ mat_trace[1].before[i] = 0
          /\ mat_trace[1].z[i] < mat_trace[1].iz[i]
          /\ mat_trace[1].after[i] = 1
          /\ mat_trace[2].before[i] = 1
          /\ mat_trace[2].z[i] > mat_trace[2].iz[i]
          /\ mat_trace[2].after[i] = 0

\* ------------------------------------------------------------------- C15
\* C15: a particle outside the convex hull of the surface points (its
\* interpolated elevation is undefined) is never changed by a
\* reclassification, whether its identifier is air or sediment.
C15_OutsideHullNoTransition ==
    mat_trace # <<>> =>
       \A i \in Particles :
          LastCall.iz[i] = NaN => LastCall.after[i] = LastCall.before[i]

\* C15 amended: a particle outside the convex hull is flagged as air: the
\* call completes, an identifier of the sediment set is replaced by the
\* first identifier of the air set, every other identifier is left as it is.
C15_OutsideHullIsAir ==
    (mat_trace # <<>> /\ ~disable_material_changes) =>
       \A i \in Particles :
          LastCall.iz[i] = NaN =>
             LastCall.after[i] = (IF InSeq(LastCall.before[i], material_map[2])
                                  THEN material_map[1][1]
                                  ELSE LastCall.before[i])

\* C15 witness: a sediment particle outside the hull went through a call and
\* came out as air
C15_Witness ==
    /\ mat_trace # <<>>
    /\ ~disable_material_changes
    /\ Disjoint(material_map)
    /\ \E i \in Particles :
          /\ LastCall.iz[i] = NaN
          /\ InSeq(LastCall.before[i], material_map[2])
          /\ LastCall.after[i] = material_map[1][1]

\* ------------------------------------------------------------------- C20
\* an identifier of the air set or of the sediment set
InLayers(map, m) == InSeq(m, map[1]) \/ InSeq(m, map[2])

\* C20: with disjoint air and sediment sets and every identifier in one of
\* them, a reclassification leaves every identifier in exactly one of the
\* sets; an identifier changes only to the first identifier of the sediment
\* set (an air particle flagged sediment) or to the first identifier of the
\* air set (a sediment particle flagged air); a particle whose flag agrees
\* with its layer keeps its identifier.
C20_TwoLayers ==
    [][ ( /\ Disjoint(material_map)
          /\ \A i \in Particles : InLayers(material_map, material_index[i]) )
        => \A i \in Particles :
              LET flag == DetermineParticleState(pz, interp_z)[i]
                  old  == material_index[i]
                  new  == material_index'[i]
              IN  /\ InLayers(material_map, new)
                  /\ ~ (InSeq(new, material_map[1]) /\ InSeq(new, material_map[2]))
                  /\ new # old =>
                        \/ /\ InSeq(old, material_map[1])
                           /\ flag
                           /\ new = material_map[2][1]
                        \/ /\ InSeq(old, material_map[2])
                           /\ ~flag
                           /\ new = material_map[1][1]
                  /\ (InSeq(old, material_map[1]) <=> ~flag) => new = old ]_vars

\* C20 witness: an air particle whose identifier is not the first of the air
\* set was flagged sediment and got the first identifier of a sediment set
\* that has two
C20_Witness ==
    /\ mat_trace # <<>>
    /\ Disjoint(material_map)
    /\ Len(material_map[2]) > 1
    /\ \E i \in Particles :
          /\ InSeq(LastCall.before[i], material_map[1])
          /\ LastCall.before[i] # material_map[1][1]
          /\ LastCall.iz[i] # NaN
          /\ LastCall.z[i] < LastCall.iz[i]
          /\ LastCall.after[i] = material_map[2][1]


\* ------------------------------------------------- generate_flat_dem alone
\* np.linspace(a, b, n): n points from a to b, both ends included; a alone
\* when n is 1.  Coordinates are whole numbers, the quotient is rounded down.
Linspace(a, b, n) ==
    [i \in 1..n |-> IF n = 1 THEN a ELSE a + ((i - 1) * (b - a)) \div (n - 1)]

\* lines 212-221: the outer loop, named y, runs over
\* linspace(minCoord[0], maxCoord[0], resolution[0]), the inner one, named x,
\* over linspace(minCoord[1], maxCoord[1], resolution[1]); the point appended
\* is [x, y, elevation].  Tuples are indexed from 1 here.
GenerateFlatDem(minCoord, maxCoord, resolution, elevation) ==
    LET ys == Linspace(minCoord[1], maxCoord[1], resolution[1])
        xs == Linspace(minCoord[2], maxCoord[2], resolution[2])
    IN  [k \in 1..(Len(ys) * Len(xs)) |->
            <<xs[((k - 1) % Len(xs)) + 1], ys[((k - 1) \div Len(xs)) + 1], elevation>>]

\* the arguments of one call
DemInit ==
    /\ Constructed
    /\ material_map = DefaultMap
    /\ disable_material_changes = FALSE
    /\ pz = [i \in Particles |-> 0]
    /\ interp_z = [i \in Particles |-> NaN]
    /\ material_index = [i \in Particles |-> 0]
    /\ mat_trace = <<>>
    /\ NoSnapshots
    /\ dem_args \in [minCoord : DemMins, maxCoord : DemMaxs, resolution : DemRes,
                     elevation : DemElevs]
    /\ dem = <<>>

\* lines 188-221: the static method is called and returns the array
DemCall ==
    /\ dem = <<>>
    /\ dem' = GenerateFlatDem(dem_args.minCoord, dem_args.maxCoord,
                              dem_args.resolution, dem_args.elevation)
    /\ UNCHANGED <<config, fields, badlands, underworld, pc, frame, observed,
                   mat_trace, dem_args, snap_files, snap_runs>>

DemNext == DemCall

DemSpec == DemInit /\ [][DemNext]_vars

\* ------------------------------------------------------------------- C14
\* C14: generate_flat_dem returns resolution[0] * resolution[1] points, all
\* at the given elevation; their x coordinates lie within the X bounds
\* (minCoord[0]..maxCoord[0]) and reach both of them, their y coordinates lie
\* within the Y bounds (minCoord[1]..maxCoord[1]) and reach both of them
\* (the upper bound when the axis has more than one point); bounds (0,0),
\* (10,10) with resolution (3,3) give 9 points with x and y in {0, 5, 10}.
C14_FlatDemSpansBounds ==
    dem # <<>> =>
       LET xs == {dem[k][1] : k \in DOMAIN dem}
           ys == {dem[k][2] : k \in DOMAIN dem}
           a  == dem_args
       IN  /\ Len(dem) = a.resolution[1] * a.resolution[2]
           /\ \A k \in DOMAIN dem : dem[k][3] = a.elevation
           /\ \A x \in xs : a.minCoord[1] <= x /\ x <= a.maxCoord[1]
           /\ a.minCoord[1] \in xs
           /\ a.resolution[1] > 1 => a.maxCoord[1] \in xs
           /\ \A y \in ys : a.minCoord[2] <= y /\ y <= a.maxCoord[2]
           /\ a.minCoord[2] \in ys
           /\ a.resolution[2] > 1 => a.maxCoord[2] \in ys
           /\ ( /\ a.minCoord = <<0, 0>>
                /\ a.maxCoord = <<10, 10>>
                /\ a.resolution = <<3, 3>> )
              => (Len(dem) = 9 /\ xs = {0, 5, 10} /\ ys = {0, 5, 10})


\* ----------------------------------------- several runs, one /tmp directory
\* Every LinkageModel saves to and loads from the same three paths (lines
\* 144-156).  The position of a run in its step: 0 outside lines 144-160,
\* 1..3 saving file 1..3, 4..6 loading file 1..3, 7 at line 160.
SaveAt == 1..Len(SnapFiles)
LoadAt == (Len(SnapFiles) + 1)..(2 * Len(SnapFiles))
EvalAt == 2 * Len(SnapFiles) + 1

\* the file a run at position a saves or loads
FileAt(a) == SnapFiles[((a - 1) % Len(SnapFiles)) + 1]

ConcInit ==
    /\ Constructed
    /\ material_map = DefaultMap
    /\ disable_material_changes = FALSE
    /\ pz = [i \in Particles |-> 0]
    /\ interp_z = [i \in Particles |-> NaN]
    /\ material_index = [i \in Particles |-> 0]
    /\ mat_trace = <<>>
    /\ dem_args = <<>>
    /\ dem = <<>>
    /\ NoSnapshots

ConcFrame == <<config, fields, badlands, underworld, pc, frame, observed,
               mat_trace, dem_args, dem>>

\* lines 119-139: a run begins a step and reaches line 144; lines 151 and 155
\* build a new field and a new swarm every step, np_mesh is kept
SnapEnter(r) ==
    /\ snap_runs[r].at = 0
    /\ snap_runs[r].step < MaxSteps
    /\ snap_runs' = [snap_runs EXCEPT
                       ![r].step = @ + 1,
                       ![r].at = 1,
                       ![r].loaded = [f \in FileNames |->
                                         IF f = "mesh" THEN @[f] ELSE Absent]]
    /\ UNCHANGED <<snap_files, ConcFrame>>

\* lines 144-146: save() opens the path for writing, what was there is gone
SnapSaveBegin(r) ==
    /\ snap_runs[r].at \in SaveAt
    /\ ~snap_runs[r].writing
    /\ snap_files' = [snap_files EXCEPT ![FileAt(snap_runs[r].at)] =
                         Content(r, snap_runs[r].step, "partial")]
    /\ snap_runs' = [snap_runs EXCEPT ![r].writing = TRUE]
    /\ UNCHANGED ConcFrame

\* lines 144-146: save() returns.  When another run opened the same path in
\* the meantime the two writes went to one file: it may hold this run's
\* data, be left as the other run has it, or be unreadable.
SnapSaveEnd(r) ==
    /\ snap_runs[r].at \in SaveAt
    /\ snap_runs[r].writing
    /\ LET f    == FileAt(snap_runs[r].at)
           mine == Content(r, snap_runs[r].step, "complete")
       IN  snap_files' \in
              {[snap_files EXCEPT ![f] = c] :
                 c \in IF snap_files[f] = Content(r, snap_runs[r].step, "partial")
                       THEN {mine}
                       ELSE {mine, snap_files[f],
                             Content(r, snap_runs[r].step, "corrupt")}}
    /\ snap_runs' = [snap_runs EXCEPT ![r].writing = FALSE, ![r].at = @ + 1]
    /\ UNCHANGED ConcFrame

\* lines 149, 153, 156: load() reads what the path holds
SnapLoad(r) ==
    /\ snap_runs[r].at \in LoadAt
    /\ snap_runs' = [snap_runs EXCEPT
                       ![r].loaded[FileAt(snap_runs[r].at)] =
                           snap_files[FileAt(snap_runs[r].at)],
                       ![r].at = @ + 1]
    /\ UNCHANGED <<snap_files, ConcFrame>>

\* line 160 and the rest of the step: the replica is used, the step ends
SnapEvaluate(r) ==
    /\ snap_runs[r].at = EvalAt
    /\ snap_runs' = [snap_runs EXCEPT ![r].at = 0]
    /\ UNCHANGED <<snap_files, ConcFrame>>

ConcNext ==
    \/ \E r \in Runs : SnapEnter(r)
    \/ \E r \in Runs : SnapSaveBegin(r)
    \/ \E r \in Runs : SnapSaveEnd(r)
    \/ \E r \in Runs : SnapLoad(r)
    \/ \E r \in Runs : SnapEvaluate(r)

ConcSpec == ConcInit /\ [][ConcNext]_vars

\* ------------------------------------------------------------------- C21
\* C21: the snapshots are single-writer-then-single-reader: whatever a run
\* has loaded into its non-partitioned replica in the current step is the
\* completely written snapshot of that same step of that same run, also
\* when several linked runs execute at the same time.
C21_SnapshotOfOwnStep ==
    \A r \in Runs : \A i \in 1..Len(SnapFiles) :
       snap_runs[r].at > Len(SnapFiles) + i =>
          snap_runs[r].loaded[SnapFiles[i]] =
             Content(r, snap_runs[r].step, "complete")

====
